---- MODULE Spec2Model ----
(***************************************************************************)
(* simcache: a content-addressed cache of simulation runs.                 *)
(*                                                                         *)
(* The model follows src/src/simcache/store.py (class SimCache),           *)
(* src/src/simcache/iterations.py (expand_grid, iter_sweep) and            *)
(* src/src/simcache/cli.py (cmd_run, cmd_sweep).  The file system under    *)
(* the store root is the state: the run subdirectories, the artifact       *)
(* locations and metadata.json of every run, and manifest.json.            *)
(***************************************************************************)
EXTENDS Integers, Sequences, FiniteSets, TLC

\* ------------------------------------------------------------------ bounds

NumRuns == 2        \* run ids 1..NumRuns stand for distinct sha256 digests
MaxAxes == 2        \* axes of a grid's "params"

RunIds == 1..NumRuns

\* ------------------------------------------------------------ value domains

\* Python None in a "timestamp" slot; real timestamps are strings, modelled
\* as non-empty sequences of digits and compared lexicographically.
NoneTs == << -1 >>
EmptyStr == << >>

RegisteredFormats == {"npz", "zarr", "hdf5"}

\* The file or directory name each registered format writes (store.py 132,
\* 140, 152).
ArraysName(fmt) ==
    CASE fmt = "npz" -> "arrays.npz"
      [] fmt = "zarr" -> "arrays.zarr"
      [] fmt = "hdf5" -> "arrays.h5"

ArtifactNames == {"arrays.npz", "arrays.zarr", "arrays.h5"}

\* The optional library a format needs (store.py 137, 149); numpy is a hard
\* import of the module.
LibOf(fmt) == IF fmt = "zarr" THEN "zarr" ELSE IF fmt = "hdf5" THEN "h5py" ELSE "numpy"
OptionalLibs == {"zarr", "h5py"}

\* What a path can hold.  An artifact location that exists holds a set of
\* <<member name, array>> pairs; a metadata.json that exists holds a record,
\* or is unreadable (truncated by a json.dump that raised).
AbsentFile == [st |-> "absent", members |-> {}]
CorruptFile == [st |-> "corrupt", members |-> {}]
FileOf(members) == [st |-> "ok", members |-> members]

AbsentMeta == [st |-> "absent"]
CorruptMeta == [st |-> "corrupt"]

EmptyRunDir == [f \in ArtifactNames |-> AbsentFile]

\* --------------------------------------------------------------- the state

VARIABLES
    installed,   \* the optional codec libraries importable in this environment
    dirs,        \* run ids whose subdirectory runs/<run_id> exists
    arts,        \* arts[id][name]: the artifact location runs/<id>/<name>
    meta,        \* meta[id]: runs/<id>/metadata.json
    manifest,    \* manifest.json: absent, or the set of its "runs" entries
    saved,       \* ids for which a save has returned (history)
    last,        \* the last operation: its name, arguments and outcome
    sweep,       \* a running iter_sweep generator: its grid and what it yielded
    outside,     \* an export destination outside the store root
    procs,       \* procs[p]: where process p is in the operation it runs
    hist         \* history: whether operations overlapped, what readers saw

vars == <<installed, dirs, arts, meta, manifest, saved, last, sweep, outside,
          procs, hist>>

\* The store as one value, for the operators that model the methods.
Store == [dirs |-> dirs, arts |-> arts, meta |-> meta, manifest |-> manifest]

AbsentManifest == [st |-> "absent", runs |-> {}]

\* ------------------------------------------------------------- the codecs

\* How each codec names an array inside the artifact: np.savez_compressed
\* stores array "x" as zip member "x.npy"; zarr and h5py use the name itself.
MemberOf(fmt, name) == IF fmt = "npz" THEN <<name, ".npy">> ELSE <<name, "">>

\* np.load's NpzFile.files strips the ".npy" suffix; array_keys() and keys()
\* return the names as stored.
KeyOf(fmt, member) == member[1]

Encode(fmt, arrays) == {<<MemberOf(fmt, a[1]), a[2]>> : a \in arrays}
Decode(fmt, members) == {<<KeyOf(fmt, m[1]), m[2]>> : m \in members}

\* An array is <<number of dimensions, elements>>: <<1, << >>>> is an empty
\* array, <<0, <<5>>>> a zero-dimensional one.
Ndim(array) == array[1]

\* The branches of SimCache._save_arrays for the registered formats.  rundir
\* is the run directory before the call, fault says where the write fails
\* ("none": it does not; "open": when the target is opened; "mid": after part
\* of the arrays were written, of which `part` were).  The result is the
\* outcome and the run directory after it.
WriteArrays(fmt, arrays, rundir, fault, part, libs) ==
    IF LibOf(fmt) \in OptionalLibs \ libs
    THEN [res |-> "RuntimeError", dir |-> rundir, name |-> "none"]
    ELSE LET name == ArraysName(fmt)
             put(f) == [rundir EXCEPT ![name] = f]
         IN CASE fault = "none" ->
                   [res |-> "ok", dir |-> put(FileOf(Encode(fmt, arrays))), name |-> name]
              [] fault = "open" ->
                   \* zarr removes an existing target before it opens the group
                   [res |-> "OSError",
                    dir |-> IF fmt = "zarr" THEN put(AbsentFile) ELSE rundir,
                    name |-> "none"]
              [] fault = "mid" ->
                   \* a zip without its central directory is unreadable; a zarr
                   \* group or an HDF5 file holds what was written so far
                   [res |-> "OSError",
                    dir |-> IF fmt = "npz" THEN put(CorruptFile)
                            ELSE put(FileOf(Encode(fmt, part))),
                    name |-> "none"]

\* A _save_arrays that falls back to npz for a format it does not know.
SaveArraysFallback(fmt, arrays, rundir, fault, part, libs) ==
    WriteArrays(IF fmt \in RegisteredFormats THEN fmt ELSE "npz",
                arrays, rundir, fault, part, libs)

\* SimCache._save_arrays
SaveArrays(fmt, arrays, rundir, fault, part, libs) ==
    IF fmt \notin RegisteredFormats
    THEN [res |-> "ValueError", dir |-> rundir, name |-> "none"]
    ELSE WriteArrays(fmt, arrays, rundir, fault, part, libs)

\* A _load_arrays that opens a missing location as an empty one.
LoadArraysLenient(fmt, file, libs) ==
    IF file.st = "ok"
    THEN [res |-> "ok", arrays |-> Decode(fmt, file.members)]
    ELSE [res |-> "ok", arrays |-> {}]

\* SimCache._load_arrays on the location `file`.  The zarr and hdf5 branches
\* read every array with [:], which zarr refuses with IndexError and h5py with
\* ValueError for an array of no dimensions; np.load reads any array.
LoadArrays(fmt, file, libs) ==
    IF fmt \notin RegisteredFormats
    THEN [res |-> "ValueError", arrays |-> {}]
    ELSE IF LibOf(fmt) \in OptionalLibs \ libs
    THEN [res |-> "RuntimeError", arrays |-> {}]
    ELSE CASE file.st = "absent" -> [res |-> "NotFound", arrays |-> {}]
           [] file.st = "corrupt" -> [res |-> "BadZipFile", arrays |-> {}]
           [] file.st = "ok" ->
                IF fmt # "npz" /\ \E m \in file.members : Ndim(m[2]) = 0
                THEN [res |-> IF fmt = "zarr" THEN "IndexError" ELSE "ValueError",
                      arrays |-> {}]
                ELSE [res |-> "ok", arrays |-> Decode(fmt, file.members)]

\* ------------------------------------------------------------------- JSON

\* A caller-supplied metadata value is a tagged sequence <<type, items...>>.
\* json.dump writes a tuple as an array, which json.load reads as a list; it
\* raises TypeError on a numpy integer (SimCache._write_json, _read_json).
Serializable(v) == v[1] # "int64"
JsonRoundTrip(v) == IF v[1] = "tuple" THEN <<"list">> \o Tail(v) ELSE v

\* ------------------------------------------------------------ the manifest

\* SimCache._load_manifest: the "runs" mapping, empty when the file is absent.
LoadManifest(man) == IF man.st = "absent" THEN {} ELSE man.runs

\* An _update_manifest that writes an index of the new entry alone.
UpdateManifestOverwrite(man, run_id, metadata) ==
    [st |-> "ok",
     runs |-> {[run_id |-> run_id, timestamp |-> metadata.timestamp,
                tags |-> metadata.tags]}]

\* SimCache._update_manifest: read the whole index, overwrite the entry of
\* run_id, write the whole index.
UpdateManifest(man, run_id, metadata) ==
    LET runs == LoadManifest(man)
        entry == [run_id |-> run_id, timestamp |-> metadata.timestamp,
                  tags |-> metadata.tags]
    IN [st |-> "ok", runs |-> {e \in runs : e.run_id # run_id} \cup {entry}]

\* -------------------------------------------------------------------- save

\* SimCache.save after run_dir.mkdir: write the arrays, then metadata.json,
\* then the manifest; an exception ends the call where it is raised.
SaveSteps(S, libs, run_id, arrays, metadata, fmt, fault, part) ==
    LET w == SaveArrays(fmt, arrays, S.arts[run_id], fault, part, libs)
        S1 == [S EXCEPT !.arts[run_id] = w.dir]
        full == [st |-> "ok", timestamp |-> metadata.timestamp,
                 tags |-> metadata.tags, extra |-> JsonRoundTrip(metadata.extra),
                 run_id |-> run_id, arrays_format |-> fmt, arrays_path |-> w.name]
    IN IF w.res # "ok" THEN [res |-> w.res, store |-> S1]
       ELSE IF ~Serializable(metadata.extra)
       THEN [res |-> "TypeError", store |-> [S1 EXCEPT !.meta[run_id] = CorruptMeta]]
       ELSE [res |-> "ok",
             store |-> [S1 EXCEPT !.meta[run_id] = full,
                                  !.manifest = UpdateManifest(S.manifest, run_id, metadata)]]

\* A save whose mkdir does not pass exist_ok.
SaveNoExistOk(S, libs, run_id, arrays, metadata, fmt, fault, part) ==
    IF run_id \in S.dirs THEN [res |-> "FileExistsError", store |-> S]
    ELSE SaveSteps([S EXCEPT !.dirs = @ \cup {run_id}],
                   libs, run_id, arrays, metadata, fmt, fault, part)

\* SimCache.save
Save(S, libs, run_id, arrays, metadata, fmt, fault, part) ==
    SaveSteps([S EXCEPT !.dirs = @ \cup {run_id}],
              libs, run_id, arrays, metadata, fmt, fault, part)

\* SimCache.run_exists
\* A run_exists that tests the runs directory, not the run's own.
RunExistsAlways(S, run_id) == TRUE

RunExists(S, run_id) ==
    run_id \in S.dirs

\* -------------------------------------------------------------------- load

NoResult == [res |-> "None", arrays |-> {}, metadata |-> AbsentMeta]

\* SimCache.load
Load(S, libs, run_id) ==
    LET md == IF run_id \in S.dirs THEN S.meta[run_id] ELSE AbsentMeta
    IN CASE md.st = "absent" -> [NoResult EXCEPT !.res = "NotFound"]
         [] md.st = "corrupt" -> [NoResult EXCEPT !.res = "JSONDecodeError"]
         [] md.st = "ok" ->
              LET r == LoadArrays(md.arrays_format, S.arts[run_id][md.arrays_path], libs)
              IN IF r.res = "ok"
                 THEN [res |-> "ok", arrays |-> r.arrays, metadata |-> md]
                 ELSE [NoResult EXCEPT !.res = r.res]

\* ------------------------------------------------------------------ listing

\* Python's str "<": lexicographic, a proper prefix first.
RECURSIVE LexLess(_, _)
LexLess(a, b) ==
    IF b = << >> THEN FALSE
    ELSE IF a = << >> THEN TRUE
    ELSE IF a[1] # b[1] THEN a[1] < b[1]
    ELSE LexLess(Tail(a), Tail(b))

\* list.sort / sorted on <<key, item>> pairs: ascending by key and stable
\* (an item goes behind the items before it whose key is not greater).
RECURSIVE InsertByKey(_, _)
InsertByKey(sorted, p) ==
    IF sorted = << >> THEN <<p>>
    ELSE IF LexLess(p[1], sorted[Len(sorted)][1])
    THEN Append(InsertByKey(SubSeq(sorted, 1, Len(sorted) - 1), p), sorted[Len(sorted)])
    ELSE Append(sorted, p)

RECURSIVE SortByKey(_)
SortByKey(pairs) ==
    IF pairs = << >> THEN << >>
    ELSE InsertByKey(SortByKey(SubSeq(pairs, 1, Len(pairs) - 1)), pairs[Len(pairs)])

\* The ids of a set in ascending order: the key order of the manifest that
\* json.dump(sort_keys=True) wrote, and of sorted(runs_dir.glob("*")).
RECURSIVE Ascending(_)
Ascending(ids) ==
    IF ids = {} THEN << >>
    ELSE LET m == CHOOSE x \in ids : \A y \in ids : x <= y
         IN <<m>> \o Ascending(ids \ {m})

ManifestEntry(runs, id) == CHOOSE e \in runs : e.run_id = id

\* A fallback that leaves out a run whose metadata.json cannot be read.
FallbackListingSkipUnreadable(S) ==
    LET scan == Ascending({id \in S.dirs : S.meta[id].st = "ok"})
    IN [i \in 1..Len(scan) |->
          [run_id |-> scan[i], timestamp |-> S.meta[scan[i]].timestamp,
           tags |-> S.meta[scan[i]].tags]]

\* The fallback of SimCache.list_runs: one entry per run subdirectory, a
\* placeholder for a run whose metadata.json cannot be read.
FallbackListing(S) ==
    LET scan == Ascending(S.dirs)
    IN [i \in 1..Len(scan) |->
          IF S.meta[scan[i]].st = "ok"
          THEN [run_id |-> scan[i], timestamp |-> S.meta[scan[i]].timestamp,
                tags |-> S.meta[scan[i]].tags]
          ELSE [run_id |-> scan[i], timestamp |-> NoneTs, tags |-> << >>]]

\* SimCache.list_runs.  sorted() compares the "timestamp" values themselves:
\* the key's default "" only stands in for a missing key, and every manifest
\* entry has the key, so a None among two or more entries raises TypeError.
ListRuns(S) ==
    LET mruns == LoadManifest(S.manifest)
        order == Ascending({e.run_id : e \in mruns})
        runs == [i \in 1..Len(order) |-> ManifestEntry(mruns, order[i])]
        sorted == SortByKey([i \in 1..Len(runs) |-> <<runs[i].timestamp, runs[i]>>])
    IN IF runs # << >>
       THEN IF Len(runs) >= 2 /\ \E i \in 1..Len(runs) : runs[i].timestamp = NoneTs
            THEN [res |-> "TypeError", runs |-> << >>]
            ELSE [res |-> "ok", runs |-> [i \in 1..Len(sorted) |-> sorted[i][2]]]
       ELSE [res |-> "ok", runs |-> FallbackListing(S)]

Range(seq) == {seq[i] : i \in 1..Len(seq)}

\* SimCache.load_latest
LoadLatest(S, libs, tag) ==
    LET listing == ListRuns(S)
        candidates == SelectSeq(listing.runs, LAMBDA run : tag \in Range(run.tags))
        keyed == [i \in 1..Len(candidates) |->
                    <<IF candidates[i].timestamp = NoneTs THEN EmptyStr
                      ELSE candidates[i].timestamp, candidates[i]>>]
        sorted == SortByKey(keyed)
    IN IF listing.res # "ok" THEN [NoResult EXCEPT !.res = listing.res]
       ELSE IF candidates = << >> THEN NoResult
       ELSE Load(S, libs, sorted[Len(sorted)][2].run_id)

\* SimCache.info: the metadata.json of the run as read
Info(S, run_id) ==
    LET md == IF run_id \in S.dirs THEN S.meta[run_id] ELSE AbsentMeta
    IN CASE md.st = "absent" -> [res |-> "NotFound", metadata |-> AbsentMeta]
         [] md.st = "corrupt" -> [res |-> "JSONDecodeError", metadata |-> AbsentMeta]
         [] md.st = "ok" -> [res |-> "ok", metadata |-> md]

\* A zarr store is a directory, the other artifacts are files.
IsDir(name, file) == name = "arrays.zarr" /\ file.st # "absent"

\* SimCache.export(run_id, dest).  dest is <<"outside", 0>>, a path outside
\* the store root, or <<"run", id>>, the path runs/<id>/<arrays_path of run_id>
\* inside it.  A directory is copied by rmtree(dest) if it exists, then
\* copytree; a file by dest.parent.mkdir and copy2, which raises SameFileError
\* when dest is the source.
Export(S, out, run_id, dest) ==
    LET info == Info(S, run_id)
        name == info.metadata.arrays_path
        src == S.arts[run_id][name]
    IN IF info.res # "ok" THEN [res |-> info.res, store |-> S, outside |-> out]
       ELSE IF IsDir(name, src)
       THEN IF dest[1] = "outside" THEN [res |-> "ok", store |-> S, outside |-> src]
            ELSE IF dest[2] = run_id
            THEN [res |-> "NotFound",
                  store |-> [S EXCEPT !.arts[run_id][name] = AbsentFile],
                  outside |-> out]
            ELSE [res |-> "ok",
                  store |-> [S EXCEPT !.dirs = @ \cup {dest[2]},
                                      !.arts[dest[2]][name] = src],
                  outside |-> out]
       ELSE LET S1 == IF dest[1] = "outside" THEN S
                      ELSE [S EXCEPT !.dirs = @ \cup {dest[2]}]
            IN IF src.st = "absent" THEN [res |-> "NotFound", store |-> S1, outside |-> out]
               ELSE IF dest[1] = "outside" THEN [res |-> "ok", store |-> S1, outside |-> src]
               ELSE IF dest[2] = run_id
               THEN [res |-> "SameFileError", store |-> S1, outside |-> out]
               ELSE [res |-> "ok", store |-> [S1 EXCEPT !.arts[dest[2]][name] = src],
                     outside |-> out]

\* -------------------------------------------------------------- the sweep

\* A grid document: params is the "params" mapping as the sequence of its
\* <<axis name, values>> items in declaration order; seeds is <<"seeds", list>>,
\* <<"seed", value>> or <<"none">> for a grid with neither key.

\* for x in xs: for r in rest: <<x>> \o r   (one level of itertools.product)
RECURSIVE PrefixEach(_, _)
PrefixEach(xs, rest) ==
    IF xs = << >> THEN << >>
    ELSE [i \in 1..Len(rest) |-> <<Head(xs)>> \o rest[i]] \o PrefixEach(Tail(xs), rest)

\* itertools.product(*values): the last sequence varies fastest.
RECURSIVE Product(_)
Product(values) ==
    IF values = << >> THEN << << >> >>
    ELSE PrefixEach(Head(values), Product(Tail(values)))

\* dict(zip(keys, combo)), a dict being the set of its items
DictZip(keys, combo) == {<<keys[i], combo[i]>> : i \in 1..Len(keys)}

\* expand_grid
ExpandGrid(params_grid) ==
    LET keys == [i \in 1..Len(params_grid) |-> params_grid[i][1]]
        values == [i \in 1..Len(params_grid) |-> params_grid[i][2]]
        combos == Product(values)
    IN [i \in 1..Len(combos) |-> DictZip(keys, combos[i])]

\* The loops of iter_sweep the other way round: for seed: for params.
RECURSIVE YieldAllSeedsOuter(_, _)
YieldAllSeedsOuter(combinations, seeds) ==
    IF seeds = << >> THEN << >>
    ELSE [i \in 1..Len(combinations) |-> <<combinations[i], Head(seeds)>>]
         \o YieldAllSeedsOuter(combinations, Tail(seeds))

\* for params in combinations: for seed in seeds: yield params, seed
RECURSIVE YieldAll(_, _)
YieldAll(combinations, seeds) ==
    IF combinations = << >> THEN << >>
    ELSE [i \in 1..Len(seeds) |-> <<Head(combinations), seeds[i]>>]
         \o YieldAll(Tail(combinations), seeds)

\* iter_sweep: everything the generator yields, in order.
IterSweep(grid) ==
    LET combinations == IF grid.params # << >> THEN ExpandGrid(grid.params) ELSE << {} >>
        seeds == CASE grid.seeds[1] = "seeds" -> grid.seeds[2]
                   [] grid.seeds[1] = "seed" -> <<grid.seeds[2]>>
                   [] OTHER -> <<0>>
    IN YieldAll(combinations, seeds)

\* ---------------------------------------------------------------- the CLI

\* Tags are numbered in the lexicographic order of their strings.
Tags == {1, 2}

\* build_metadata: the timestamp is the clock's reading, the tags are
\* sorted(set(tags)), the simulation's extra metadata is merged in.
\* A tags argument is <<"list", tags>>, <<"str", tag>> or <<"none", 0>>; the
\* extra mapping of a simulation holds one key: "tags" (<<"tags", list>>) or
\* another one (<<kind, value>>).
NoTags == <<"none", 0>>
NoExtra == <<"none", 0>>

\* if isinstance(tags, str): tags = [tags];  tags or []
TagList(tags) ==
    CASE tags[1] = "str" -> <<tags[2]>>
      [] tags[1] = "list" -> tags[2]
      [] OTHER -> << >>

\* build_metadata: "tags": sorted(set(tags or [])), then metadata.update(extra)
BuildMetadata(tags, now, extra) ==
    [timestamp |-> now,
     tags |-> IF extra[1] = "tags" THEN extra[2] ELSE Ascending(Range(TagList(tags))),
     extra |-> IF extra[1] = "tags" THEN NoExtra ELSE extra]

\* SimCache.compute_run_id on the run specifications the model draws:
\* params {"a": v} with seed 0, whose sha256 digests are distinct; v names
\* the digest.
ComputeRunId(params, seed) == CHOOSE id \in RunIds : <<"a", id>> \in params

\* A call of the simulation function and what it does: sim.kind is "ok", or
\* "raise" (the function raises), or "badtype" (_normalize_result raises
\* TypeError); sim.arrays and sim.extra are its result, sim.now the clock when
\* build_metadata runs, sim.fault and sim.part the fate of the write.
\* The part of cmd_run and of cmd_sweep's loop body behind the cache check:
RunAndSave(S, libs, run_id, tags, fmt, sim) ==
    IF sim.kind = "raise" THEN [res |-> "SimError", store |-> S]
    ELSE IF sim.kind = "badtype" THEN [res |-> "TypeError", store |-> S]
    ELSE Save(S, libs, run_id, sim.arrays,
              BuildMetadata(tags, sim.now, sim.extra), fmt, sim.fault, sim.part)

\* A cmd_run without the cache check.
CmdRunNoCheck(S, libs, params, seed, force, tags, fmt, sim) ==
    LET run_id == ComputeRunId(params, seed)
        r == RunAndSave(S, libs, run_id, tags, fmt, sim)
    IN [res |-> r.res, store |-> r.store, ran |-> {<<1, run_id>>}]

\* cmd_run: a cache hit unless --force; ran says whether run_fn was called.
CmdRun(S, libs, params, seed, force, tags, fmt, sim) ==
    LET run_id == ComputeRunId(params, seed)
    IN IF RunExists(S, run_id) /\ ~force
       THEN [res |-> "hit", store |-> S, ran |-> {}]
       ELSE LET r == RunAndSave(S, libs, run_id, tags, fmt, sim)
            IN [res |-> r.res, store |-> r.store, ran |-> {<<1, run_id>>}]

\* cmd_sweep's loop from the k-th pair on: ran collects <<position, run id>>
\* of the runs computed; an exception ends the command.
RECURSIVE SweepLoop(_, _, _, _, _, _, _, _)
SweepLoop(S, libs, pairs, k, tags, fmt, outs, ran) ==
    IF k > Len(pairs) THEN [res |-> "ok", store |-> S, ran |-> ran]
    ELSE LET run_id == ComputeRunId(pairs[k][1], pairs[k][2])
         IN IF RunExists(S, run_id)
            THEN SweepLoop(S, libs, pairs, k + 1, tags, fmt, outs, ran)
            ELSE LET r == RunAndSave(S, libs, run_id, tags, fmt, outs[k])
                 IN IF r.res # "ok"
                    THEN [res |-> r.res, store |-> r.store,
                          ran |-> ran \cup {<<k, run_id>>}]
                    ELSE SweepLoop(r.store, libs, pairs, k + 1, tags, fmt, outs,
                                   ran \cup {<<k, run_id>>})

\* cmd_sweep
CmdSweep(S, libs, grid, fmt, outs) ==
    LET tags == <<"list", TagList(grid.tags)>>
    IN SweepLoop(S, libs, IterSweep(grid), 1, tags, fmt, outs, {})

\* ------------------------------------------------------------ input domains

Timestamps == {<<1, 0>>, <<2>>}            \* the strings "10" and "2"
Formats == RegisteredFormats \cup {"csv"}

OneArray == {<<"t", <<1, <<1>>>>>>}
TwoArrays == {<<"t", <<1, <<1>>>>>>, <<"x", <<1, <<2, 3>>>>>>}
PlainExtra == <<"list", 1>>

\* What a write that fails midway has written: not all of the arrays.
Parts(arrays, fault) == IF fault = "mid" THEN (SUBSET arrays) \ {arrays} ELSE {{}}

NoArgs == [arrays |-> {}, fmt |-> "none",
           metadata |-> [timestamp |-> NoneTs, tags |-> << >>, extra |-> PlainExtra]]

\* The record of the last operation: bad says that the format given is not a
\* registered one, ran holds <<position, run id>> for every call of the
\* simulation function, out is what a load returned.
Op(name, run_id, fmt, tag, force, res, ran, args, out) ==
    [op |-> name, run_id |-> run_id, bad |-> fmt \notin RegisteredFormats \cup {"none"},
     tag |-> tag, force |-> force,
     res |-> res, ran |-> ran, args |-> args, out |-> out]

\* ------------------------------------------------------------------ actions

\* The processes that use one store root, and a process that runs nothing.
Procs == {1, 2}
IdleProc == [pc |-> "idle", op |-> "none", run_id |-> 0, fmt |-> "none",
             man |-> AbsentManifest, md |-> AbsentMeta, res |-> "none", arrays |-> {}]

InitStore ==
    /\ dirs = {}
    /\ arts = [id \in RunIds |-> EmptyRunDir]
    /\ meta = [id \in RunIds |-> AbsentMeta]
    /\ manifest = AbsentManifest
    /\ saved = {}
    /\ outside = AbsentFile
    /\ procs = [p \in Procs |-> IdleProc]
    /\ hist = [raced |-> {}, seen |-> {}]
    /\ last = Op("init", 0, "none", 0, FALSE, "ok", {}, NoArgs, NoResult)

NoGrid == [params |-> << >>, seeds |-> <<"none">>, tags |-> NoTags]
NoSweep == [grid |-> NoGrid, yielded |-> << >>, done |-> FALSE]

SetStore(S) ==
    /\ dirs' = S.dirs
    /\ arts' = S.arts
    /\ meta' = S.meta
    /\ manifest' = S.manifest

\* stash.save(run_id, arrays, metadata, arrays_format), the inputs drawn from
\* the given sets; keep says whether the arguments are kept in `last`.
SaveOp(ids, arraySets, metadatas, formats, faults, keep) ==
    \E run_id \in ids, arrays \in arraySets, metadata \in metadatas,
       fmt \in formats, fault \in faults :
      \E part \in Parts(arrays, fault) :
        \E r \in {Save(Store, installed, run_id, arrays, metadata, fmt, fault, part)} :
           /\ SetStore(r.store)
           /\ saved' = IF r.res = "ok" THEN saved \cup {run_id} ELSE saved
           /\ last' = Op("save", run_id, fmt, 0, FALSE, r.res, {},
                         IF keep THEN [arrays |-> arrays, fmt |-> fmt, metadata |-> metadata]
                         ELSE NoArgs, NoResult)
           /\ UNCHANGED <<procs, hist, outside, installed, sweep>>

\* stash.load(run_id)
LoadOp(ids) ==
    \E run_id \in ids :
      \E r \in {Load(Store, installed, run_id)} :
        /\ last' = Op("load", run_id, "none", 0, FALSE, r.res, {}, NoArgs, r)
        /\ UNCHANGED <<procs, hist, outside, installed, dirs, arts, meta, manifest, saved, sweep>>

\* stash.list_runs()
ListRunsOp ==
    /\ last' = Op("list_runs", 0, "none", 0, FALSE, ListRuns(Store).res, {}, NoArgs,
                  NoResult)
    /\ UNCHANGED <<procs, hist, outside, installed, dirs, arts, meta, manifest, saved, sweep>>

\* stash.load_latest(tag)
LoadLatestOp ==
    \E tag \in Tags :
      \E r \in {LoadLatest(Store, installed, tag)} :
        /\ last' = Op("load_latest", 0, "none", tag, FALSE, r.res, {}, NoArgs, r)
        /\ UNCHANGED <<procs, hist, outside, installed, dirs, arts, meta, manifest, saved, sweep>>

\* manifest.json is deleted from outside the program
RemoveManifest ==
    /\ manifest.st # "absent"
    /\ manifest' = AbsentManifest
    /\ last' = Op("rm_manifest", 0, "none", 0, FALSE, "ok", {}, NoArgs, NoResult)
    /\ UNCHANGED <<procs, hist, outside, installed, dirs, arts, meta, saved, sweep>>

\* What a call of the simulation function can do in the store-wide model.
SimOutcomes ==
    [kind : {"ok"}, arrays : {OneArray}, extra : {PlainExtra}, now : Timestamps,
     fault : {"none"}, part : {{}}]
    \cup [kind : {"raise", "badtype"}, arrays : {{}}, extra : {PlainExtra},
          now : {NoneTs}, fault : {"none"}, part : {{}}]

\* The formats given on the command line in the model: a registered one and
\* an unregistered one.
CliFormats == {"npz", "csv"}

\* simcache run SCRIPT --params P [--force] --format FMT
CmdRunOp ==
    \E run_id \in RunIds, force \in BOOLEAN, fmt \in CliFormats, sim \in SimOutcomes :
      \E r \in {CmdRun(Store, installed, {<<"a", run_id>>}, 0, force, <<"list", << >>>>, fmt, sim)} :
           /\ SetStore(r.store)
           /\ saved' = IF r.res = "ok" THEN saved \cup {run_id} ELSE saved
           /\ last' = Op("run", run_id, fmt, 0, force, r.res, r.ran, NoArgs, NoResult)
           /\ UNCHANGED <<procs, hist, outside, installed, sweep>>

\* The grids of the command-line model: one axis "a" of one or two values (a
\* value may repeat), default seed, no tags.
StoreGrids ==
    [params : {<< <<"a", <<v>> >> >> : v \in RunIds}
              \cup {<< <<"a", <<v, w>> >> >> : v \in RunIds, w \in RunIds},
     seeds : {<<"none">>}, tags : {NoTags}]

SweepOutcomes == {sim \in SimOutcomes : sim.kind # "badtype" /\ sim.now # <<1, 0>>}

\* simcache sweep GRID SCRIPT --format FMT
CmdSweepOp ==
    \E grid \in StoreGrids, fmt \in CliFormats :
      \E outs \in [1..Len(IterSweep(grid)) -> SweepOutcomes] :
      \E r \in {CmdSweep(Store, installed, grid, fmt, outs)} :
           /\ SetStore(r.store)
           /\ saved' = {id \in RunIds : id \in saved \/
                          (\E p \in r.ran : p[2] = id /\ r.store.meta[id] # meta[id])}
           /\ last' = Op("sweep", 0, fmt, 0, FALSE, r.res, r.ran, NoArgs, NoResult)
           /\ UNCHANGED <<procs, hist, outside, installed, sweep>>

\* ------------------------------------------------------- the store-wide model

\* Direct saves to every run id in every format, in each environment of
\* optional libraries.
StoreMetadatas == [timestamp : Timestamps, tags : {<< >>}, extra : {PlainExtra}]

Init ==
    /\ installed \in SUBSET OptionalLibs
    /\ InitStore
    /\ sweep = NoSweep

Next ==
    \/ SaveOp(RunIds, {OneArray}, StoreMetadatas, Formats, {"none"}, FALSE)

Spec == Init /\ [][Next]_vars

\* ------------------------------------------------------- the command line

CliInit ==
    /\ installed = OptionalLibs
    /\ InitStore
    /\ sweep = NoSweep

CliNext ==
    \/ CmdRunOp
    \/ CmdSweepOp

CliSpec == CliInit /\ [][CliNext]_vars

\* ------------------------------------------------------------ the listing

\* Saves whose metadata differ in timestamp (also none) and tags, a save
\* whose metadata json.dump cannot write, a save in an unregistered format,
\* the listing and load_latest, and the loss of manifest.json.
ListMetadatas ==
    [timestamp : Timestamps \cup {NoneTs}, tags : {<< >>, <<1>>},
     extra : {PlainExtra, <<"int64", 1>>}]

ListInit ==
    /\ installed = OptionalLibs
    /\ InitStore
    /\ sweep = NoSweep

ListNext ==
    \/ SaveOp(RunIds, {OneArray}, ListMetadatas, {"npz", "csv"}, {"none"}, FALSE)
    \/ ListRunsOp
    \/ LoadLatestOp
    \/ RemoveManifest

ListSpec == ListInit /\ [][ListNext]_vars

\* ------------------------------------------------------- one run, its codecs

\* One run id, saved and loaded with every array set, metadata value and
\* format; the arguments of a save are kept in `last`.
ArraySets == {{}, {<<"t", <<1, << >>>>>>}, TwoArrays, {<<"e", <<0, <<5>>>>>>}}
Extras == {PlainExtra, <<"tuple", 1>>, <<"int64", 1>>}
CodecMetadatas == [timestamp : {<<2>>}, tags : {<<1>>}, extra : Extras]

CodecInit ==
    /\ installed \in SUBSET OptionalLibs
    /\ InitStore
    /\ sweep = NoSweep

CodecNext ==
    \/ SaveOp({1}, ArraySets, CodecMetadatas, Formats, {"none"}, TRUE)
    \/ LoadOp({1})

CodecSpec == CodecInit /\ [][CodecNext]_vars

\* ------------------------------------------------------ one run, failing writes

Faults == {"none", "open", "mid"}
FaultMetadatas == [timestamp : {<<2>>}, tags : {<< >>}, extra : {PlainExtra}]

FaultInit ==
    /\ installed \in SUBSET OptionalLibs
    /\ InitStore
    /\ sweep = NoSweep

FaultNext ==
    \/ SaveOp({1}, {TwoArrays}, FaultMetadatas, Formats, Faults, FALSE)
    \/ LoadOp({1})

FaultSpec == FaultInit /\ [][FaultNext]_vars

\* ------------------------------------------------------------------- tags

\* Runs and sweeps that tag their runs: --tag options (argparse collects
\* them in a list), a grid's "tags" (a list, one string, or none), and
\* simulations whose extra metadata has a "tags" key of its own.
TagArgs == {<<"list", << >>>>, <<"list", <<2, 1, 1>>>>}
GridTags == {NoTags, <<"str", 1>>, <<"list", <<2, 1, 1>>>>}
TagSims ==
    [kind : {"ok"}, arrays : {OneArray},
     extra : {PlainExtra, <<"tags", <<2, 1, 1>>>>, <<"tags", <<1, 2>>>>},
     now : {<<2>>}, fault : {"none"}, part : {{}}]
TagGrids ==
    [params : {<< <<"a", <<v>> >> >> : v \in RunIds}, seeds : {<<"none">>},
     tags : GridTags]

\* simcache run SCRIPT --params P [--force] [--tag T]...
CmdRunTagsOp ==
    \E run_id \in RunIds, force \in BOOLEAN, tags \in TagArgs, sim \in TagSims :
      \E r \in {CmdRun(Store, installed, {<<"a", run_id>>}, 0, force, tags, "npz", sim)} :
           /\ SetStore(r.store)
           /\ saved' = IF r.res = "ok" THEN saved \cup {run_id} ELSE saved
           /\ last' = Op("run", run_id, "npz", 0, force, r.res, r.ran, NoArgs, NoResult)
           /\ UNCHANGED <<procs, hist, outside, installed, sweep>>

\* simcache sweep GRID SCRIPT, the grid carrying tags
CmdSweepTagsOp ==
    \E grid \in TagGrids, sim \in TagSims :
      \E r \in {CmdSweep(Store, installed, grid, "npz", <<sim>>)} :
           /\ SetStore(r.store)
           /\ saved' = saved \cup {p[2] : p \in r.ran}
           /\ last' = Op("sweep", 0, "npz", 0, FALSE, r.res, r.ran, NoArgs, NoResult)
           /\ UNCHANGED <<procs, hist, outside, installed, sweep>>

TagInit ==
    /\ installed = OptionalLibs
    /\ InitStore
    /\ sweep = NoSweep

TagNext ==
    \/ CmdRunTagsOp
    \/ CmdSweepTagsOp

TagSpec == TagInit /\ [][TagNext]_vars

\* ------------------------------------------------------------ the generator

\* Grids of up to MaxAxes axes, each of no, one, two or three values (repeated
\* ones too), with a "seeds" list, a single "seed" or neither.
AxisNames == <<"a", "b", "c", "d">>
AxisLists == {<< >>, <<1>>, <<1, 2>>, <<2, 1>>, <<2, 2, 1>>}
SeedValues == {0, 1}
SeedLists == {<< >>, <<1>>, <<0, 1>>, <<1, 0>>}

RECURSIVE ParamsOf(_)
ParamsOf(n) ==
    IF n = 0 THEN {<< >>}
    ELSE {Append(p, <<AxisNames[n], vals>>) :
             p \in ParamsOf(n - 1), vals \in AxisLists}

SweepGrids ==
    [params : UNION {ParamsOf(n) : n \in 0..MaxAxes},
     seeds : {<<"none">>} \cup {<<"seed", v>> : v \in SeedValues}
             \cup {<<"seeds", l>> : l \in SeedLists},
     tags : {NoTags}]

SweepInit ==
    /\ installed = OptionalLibs
    /\ InitStore
    /\ sweep \in [grid : SweepGrids, yielded : {<< >>}, done : {FALSE}]

\* next() on the generator of iter_sweep(grid): the next pair
SweepYield ==
    /\ ~sweep.done
    /\ Len(sweep.yielded) < Len(IterSweep(sweep.grid))
    /\ sweep' = [sweep EXCEPT
                   !.yielded = Append(@, IterSweep(sweep.grid)[Len(@) + 1])]
    /\ UNCHANGED <<procs, hist, outside, installed, dirs, arts, meta, manifest, saved, last>>

\* next() on the exhausted generator: StopIteration
SweepStop ==
    /\ ~sweep.done
    /\ Len(sweep.yielded) = Len(IterSweep(sweep.grid))
    /\ sweep' = [sweep EXCEPT !.done = TRUE]
    /\ UNCHANGED <<procs, hist, outside, installed, dirs, arts, meta, manifest, saved, last>>

SweepNext ==
    \/ SweepYield
    \/ SweepStop

SweepSpec == SweepInit /\ [][SweepNext]_vars

\* --------------------------------------------------------- run identifiers

\* Python values as <<kind, payload>>.  Text is a sequence of character
\* codes; a set comes with the order its iteration produces; a dict is the
\* sequence of its <<key, value>> items in insertion order.
PyNone == <<"none", 0>>
PyInt(n) == <<"int", n>>
PyStr(codes) == <<"str", codes>>
PyList(items) == <<"list", items>>
PyTuple(items) == <<"tuple", items>>
PySet(items) == <<"set", items>>
PyDict(items) == <<"dict", items>>

\* An exception on its way out of a nested call.
Raised == <<"TypeError", 0>>

\* a < b as Python evaluates it on normalised values: "lt", "ge", or "err"
\* for the TypeError of an unordered pair of types.
RECURSIVE PyLess(_, _)
PyLess(a, b) ==
    CASE a[1] = "int" /\ b[1] = "int" -> IF a[2] < b[2] THEN "lt" ELSE "ge"
      [] a[1] = "str" /\ b[1] = "str" -> IF LexLess(a[2], b[2]) THEN "lt" ELSE "ge"
      [] a[1] = "list" /\ b[1] = "list" ->
            LET n == IF Len(a[2]) < Len(b[2]) THEN Len(a[2]) ELSE Len(b[2])
                diff == {i \in 1..n : a[2][i] # b[2][i]}
            IN IF diff = {}
               THEN IF Len(a[2]) < Len(b[2]) THEN "lt" ELSE "ge"
               ELSE LET i == CHOOSE k \in diff : \A j \in diff : k <= j
                    IN PyLess(a[2][i], b[2][i])
      [] OTHER -> "err"

\* sorted(items): a stable insertion sort by PyLess, or Raised.
RECURSIVE InsertValue(_, _)
InsertValue(sorted, v) ==
    IF sorted = Raised THEN Raised
    ELSE IF sorted = << >> THEN <<v>>
    ELSE LET c == PyLess(v, sorted[Len(sorted)])
         IN IF c = "err" THEN Raised
            ELSE IF c = "lt"
            THEN LET front == InsertValue(SubSeq(sorted, 1, Len(sorted) - 1), v)
                 IN IF front = Raised THEN Raised
                    ELSE Append(front, sorted[Len(sorted)])
            ELSE Append(sorted, v)

RECURSIVE SortedValues(_)
SortedValues(items) ==
    IF items = << >> THEN << >>
    ELSE InsertValue(SortedValues(SubSeq(items, 1, Len(items) - 1)), items[Len(items)])

\* core._normalize: dicts keep their items (keys are text already), lists and
\* tuples become lists, sets become sorted lists, scalars stay.
RECURSIVE Normalize(_)
Normalize(obj) ==
    CASE obj[1] = "dict" ->
            LET items == [i \in 1..Len(obj[2]) |->
                             <<obj[2][i][1], Normalize(obj[2][i][2])>>]
            IN IF \E i \in 1..Len(items) : items[i][2] = Raised THEN Raised
               ELSE PyDict(items)
      [] obj[1] \in {"list", "tuple"} ->
            LET items == [i \in 1..Len(obj[2]) |-> Normalize(obj[2][i])]
            IN IF \E i \in 1..Len(items) : items[i] = Raised THEN Raised
               ELSE PyList(items)
      [] obj[1] = "set" ->
            LET items == [i \in 1..Len(obj[2]) |-> Normalize(obj[2][i])]
            IN IF \E i \in 1..Len(items) : items[i] = Raised THEN Raised
               ELSE LET sorted == SortedValues(items)
                    IN IF sorted = Raised THEN Raised ELSE PyList(sorted)
      [] OTHER -> obj

\* The decimal digits of a natural number, as character codes.
RECURSIVE Digits(_)
Digits(n) == IF n < 10 THEN <<48 + n>> ELSE Append(Digits(n \div 10), 48 + (n % 10))

RECURSIVE JoinCommas(_)
JoinCommas(texts) ==
    IF texts = << >> THEN << >>
    ELSE IF Len(texts) = 1 THEN texts[1]
    ELSE texts[1] \o <<44>> \o JoinCommas(Tail(texts))

\* json.dumps(normalized, sort_keys=True, separators=(",", ":")) as text.
RECURSIVE Dumps(_)
Dumps(val) ==
    CASE val[1] = "none" -> <<110, 117, 108, 108>>
      [] val[1] = "int" -> Digits(val[2])
      [] val[1] = "str" -> <<34>> \o val[2] \o <<34>>
      [] val[1] = "list" ->
            <<91>> \o JoinCommas([i \in 1..Len(val[2]) |-> Dumps(val[2][i])]) \o <<93>>
      [] val[1] = "dict" ->
            LET items == SortByKey(val[2])
            IN <<123>>
               \o JoinCommas([i \in 1..Len(items) |->
                                 <<34>> \o items[i][1] \o <<34, 58>> \o Dumps(items[i][2])])
               \o <<125>>

\* hashlib.sha256(...).hexdigest(): DigestLen lowercase hexadecimal digits
\* that depend on every character of the payload (a small mixing function
\* stands for SHA-256).
DigestLen == 64
HexDigits == <<48, 49, 50, 51, 52, 53, 54, 55, 56, 57, 97, 98, 99, 100, 101, 102>>

RECURSIVE Mix(_, _)
Mix(h, payload) ==
    IF payload = << >> THEN h
    ELSE Mix((h * 33 + Head(payload)) % 65521, Tail(payload))

Sha256Hex(payload) ==
    LET h == Mix(5381, payload)
    IN [i \in 1..DigestLen |-> HexDigits[(((h \div i) + i * h) % 16) + 1]]

\* core.make_run_id keeps RunIdLen characters of a digest.
RunIdLen == 12

\* core.hash_spec
HashSpec(spec) ==
    LET normalized == Normalize(spec)
    IN IF normalized = Raised THEN [res |-> "TypeError", id |-> << >>]
       ELSE [res |-> "ok", id |-> Sha256Hex(Dumps(normalized))]

\* "code_version", "env", "params", "seed" as text
KeyCodeVersion == <<99, 118>>
KeyEnv == <<101, 110>>
KeyParams == <<112, 97>>
KeySeed == <<115, 101>>

\* SimCache.build_spec
BuildSpec(params, seed, code_version, env) ==
    PyDict(<< <<KeyCodeVersion, code_version>>, <<KeyEnv, env>>,
              <<KeyParams, params>>, <<KeySeed, seed>> >>)

\* SimCache.compute_run_id with env given
ComputeRunIdOf(params, seed, code_version, env) ==
    HashSpec(BuildSpec(params, seed, code_version, env))

\* The params of the identifier model: the same mapping with its keys in
\* either insertion order, a list or a tuple, a set in either iteration
\* order, sets of one type and of mixed types, and mappings that differ.
KeyA == <<97>>
KeyB == <<98>>
TextX == PyStr(<<120>>)
IdParams ==
    {PyDict(<< <<KeyA, PyInt(1)>>, <<KeyB, PyList(<<PyInt(1), PyInt(2)>>)>> >>),
     PyDict(<< <<KeyB, PyTuple(<<PyInt(1), PyInt(2)>>)>>, <<KeyA, PyInt(1)>> >>),
     PyDict(<< <<KeyA, PyInt(1)>>, <<KeyB, PyList(<<PyInt(2), PyInt(1)>>)>> >>),
     PyDict(<< <<KeyA, PySet(<<PyInt(1), PyInt(2)>>)>> >>),
     PyDict(<< <<KeyA, PySet(<<PyInt(2), PyInt(1)>>)>> >>),
     PyDict(<< <<KeyA, PySet(<<TextX>>)>> >>),
     PyDict(<< <<KeyA, PySet(<<PyNone>>)>> >>),
     PyDict(<< <<KeyA, PySet(<<PyInt(1), TextX>>)>> >>),
     PyDict(<< <<KeyA, PySet(<<TextX, PyInt(1)>>)>> >>),
     PyDict(<< <<KeyA, PySet(<<PyNone, PyInt(1)>>)>> >>),
     PyDict(<< <<KeyA, PySet(<<PyTuple(<<PyInt(1), PyInt(2)>>),
                              PyTuple(<<PyInt(1)>>)>>)>> >>),
     PyDict(<< <<KeyA, PyInt(12)>> >>),
     PyDict(<< <<KeyA, TextX>> >>),
     PyDict(<< <<KeyA, PyNone>> >>),
     PyDict(<< >>)}
IdSeeds == {PyInt(0), PyInt(1)}
EmptyEnv == PyDict(<< >>)

NoCall == [params |-> PyDict(<< >>), seed |-> PyInt(0), res |-> "none", id |-> << >>]

IdInit ==
    /\ installed = OptionalLibs
    /\ InitStore
    /\ sweep = [NoSweep EXCEPT !.yielded = <<NoCall, NoCall>>]

\* compute_run_id(params, seed, None, {}); the state keeps the last two calls.
ComputeRunIdOp(paramSets, seeds) ==
    /\ \E params \in paramSets, seed \in seeds :
          \E r \in {ComputeRunIdOf(params, seed, PyNone, EmptyEnv)} :
             /\ sweep' = [sweep EXCEPT !.yielded =
                            <<@[2], [params |-> params, seed |-> seed,
                                     res |-> r.res, id |-> r.id]>>]
             /\ last' = Op("compute_run_id", 0, "none", 0, FALSE, r.res, {}, NoArgs, NoResult)
    /\ UNCHANGED <<procs, hist, outside, installed, dirs, arts, meta, manifest, saved>>

IdNext == ComputeRunIdOp(IdParams, IdSeeds)

IdSpec == IdInit /\ [][IdNext]_vars

\* ------------------------------------------------------ every operation

\* stash.run_exists(run_id)
RunExistsOp ==
    \E run_id \in RunIds :
        /\ last' = Op("run_exists", run_id, "none", 0, FALSE,
                      IF RunExists(Store, run_id) THEN "True" ELSE "False", {},
                      NoArgs, NoResult)
        /\ UNCHANGED <<procs, hist, outside, installed, dirs, arts, meta, manifest, saved, sweep>>

\* stash.info(run_id)
InfoOp ==
    \E run_id \in RunIds :
      \E r \in {Info(Store, run_id)} :
        /\ last' = Op("info", run_id, "none", 0, FALSE, r.res, {}, NoArgs,
                      [NoResult EXCEPT !.metadata = r.metadata])
        /\ UNCHANGED <<procs, hist, outside, installed, dirs, arts, meta, manifest, saved, sweep>>

ExportDests == {<<"outside", 0>>} \cup {<<"run", id>> : id \in RunIds}

\* stash.export(run_id, dest)
ExportOp ==
    \E run_id \in RunIds, dest \in ExportDests :
      \E r \in {Export(Store, outside, run_id, dest)} :
        /\ SetStore(r.store)
        /\ outside' = r.outside
        /\ last' = Op("export", run_id, "none", 0, FALSE, r.res, {}, NoArgs, NoResult)
        /\ UNCHANGED <<procs, hist, installed, saved, sweep>>

FrameMetadatas == [timestamp : {<<2>>}, tags : {<<1>>}, extra : {PlainExtra}]

FrameInit ==
    /\ installed = OptionalLibs
    /\ InitStore
    /\ sweep = [NoSweep EXCEPT !.yielded = <<NoCall, NoCall>>]

FrameNext ==
    \/ SaveOp(RunIds, {OneArray}, FrameMetadatas, {"npz", "zarr"}, {"none"}, FALSE)
    \/ RunExistsOp
    \/ ComputeRunIdOp({PyDict(<< >>)}, {PyInt(0)})
    \/ LoadOp(RunIds)
    \/ InfoOp
    \/ ListRunsOp
    \/ LoadLatestOp
    \/ ExportOp

FrameSpec == FrameInit /\ [][FrameNext]_vars

\* ------------------------------------------------------ the life of a run

\* Saves of every run id in every format, registered or not, in each
\* environment of optional libraries, with writes that fail at the open or
\* midway; run_exists and load; cmd_run with and without --force.
LifeInit ==
    /\ installed \in SUBSET OptionalLibs
    /\ InitStore
    /\ sweep = NoSweep

LifeNext ==
    \/ SaveOp(RunIds, {OneArray}, FaultMetadatas, Formats, Faults, FALSE)
    \/ RunExistsOp
    \/ LoadOp(RunIds)
    \/ CmdRunOp

LifeSpec == LifeInit /\ [][LifeNext]_vars

\* ------------------------------------------------------ a stale manifest

\* Saves that return and saves that raise after the run directory is made
\* (unregistered format), every one with a timestamp; the loss of
\* manifest.json between saves; the listing.
StaleMetadatas == [timestamp : Timestamps, tags : {<< >>, <<1>>}, extra : {PlainExtra}]

StaleInit ==
    /\ installed = OptionalLibs
    /\ InitStore
    /\ sweep = NoSweep

StaleNext ==
    \/ SaveOp(RunIds, {OneArray}, StaleMetadatas, {"npz", "csv"}, {"none"}, FALSE)
    \/ ListRunsOp
    \/ RemoveManifest

StaleSpec == StaleInit /\ [][StaleNext]_vars

\* ------------------------------------------------- operations step by step

\* save, load and run_exists as the sequences of file-system operations they
\* make, so that processes on one store root interleave.  A save writes
\* StepArrays with StepMetadata; the optional libraries are installed.
StepArrays == OneArray
StepMetadata == [timestamp |-> <<2>>, tags |-> << >>, extra |-> PlainExtra]

\* metadata = dict(metadata); metadata.update({run_id, arrays_format, arrays_path})
FullMetadata(metadata, run_id, fmt) ==
    [st |-> "ok", timestamp |-> metadata.timestamp, tags |-> metadata.tags,
     extra |-> JsonRoundTrip(metadata.extra), run_id |-> run_id,
     arrays_format |-> fmt, arrays_path |-> ArraysName(fmt)]

\* One step of process p: its new position, the store, the ids saved, and
\* what a reader saw; the history notes a step taken while another process
\* is inside an operation: "ww" when both are saves, "rw" when one of them is.
Step(p, proc, S, ids, seen) ==
    /\ procs' = [procs EXCEPT ![p] = proc]
    /\ SetStore(S)
    /\ saved' = ids
    /\ hist' = [raced |-> hist.raced
                   \cup {"ww" : q \in {r \in Procs \ {p} :
                              procs[r].pc # "idle" /\ procs[r].op = "save"
                              /\ proc.op = "save"}}
                   \cup {"rw" : q \in {r \in Procs \ {p} :
                              procs[r].pc # "idle"
                              /\ (procs[r].op = "save") # (proc.op = "save")}},
                seen |-> hist.seen \cup seen]
    /\ UNCHANGED <<installed, last, sweep, outside>>

\* save(run_id, StepArrays, StepMetadata, fmt) is called
BeginSave(ps, ids, formats) ==
    \E p \in ps, run_id \in ids, fmt \in formats :
        /\ procs[p].pc = "idle"
        /\ Step(p, [IdleProc EXCEPT !.pc = "mkdir", !.op = "save", !.run_id = run_id,
                                    !.fmt = fmt],
                Store, saved, {})

\* run_dir.mkdir(parents=True, exist_ok=True); an existing zarr target is
\* removed before the group is opened
SaveMkdir(ps) ==
    \E p \in ps :
        /\ procs[p].pc = "mkdir"
        /\ LET id == procs[p].run_id
               target == arts[id][ArraysName(procs[p].fmt)]
           IN Step(p, [procs[p] EXCEPT !.pc = IF procs[p].fmt = "zarr" /\ target.st # "absent"
                                             THEN "rmtree" ELSE "open"],
                   [Store EXCEPT !.dirs = @ \cup {id}], saved, {})

\* shutil.rmtree(arrays_path)
SaveRmtree(ps) ==
    \E p \in ps :
        /\ procs[p].pc = "rmtree"
        /\ Step(p, [procs[p] EXCEPT !.pc = "open"],
                [Store EXCEPT !.arts[procs[p].run_id][ArraysName(procs[p].fmt)] = AbsentFile],
                saved, {})

\* The target is created or truncated: an npz archive is unreadable until it
\* is closed, a zarr group or HDF5 file is empty
SaveOpen(ps) ==
    \E p \in ps :
        /\ procs[p].pc = "open"
        /\ Step(p, [procs[p] EXCEPT !.pc = "write"],
                [Store EXCEPT !.arts[procs[p].run_id][ArraysName(procs[p].fmt)] =
                    IF procs[p].fmt = "npz" THEN CorruptFile ELSE FileOf({})],
                saved, {})

\* The arrays are written and the target is closed
SaveWrite(ps) ==
    \E p \in ps :
        /\ procs[p].pc = "write"
        /\ Step(p, [procs[p] EXCEPT !.pc = "meta_open"],
                [Store EXCEPT !.arts[procs[p].run_id][ArraysName(procs[p].fmt)] =
                    FileOf(Encode(procs[p].fmt, StepArrays))],
                saved, {})

\* _write_json: path.open("w") truncates metadata.json
SaveMetaOpen(ps) ==
    \E p \in ps :
        /\ procs[p].pc = "meta_open"
        /\ Step(p, [procs[p] EXCEPT !.pc = "meta_write"],
                [Store EXCEPT !.meta[procs[p].run_id] = CorruptMeta], saved, {})

\* _write_json: json.dump writes the metadata
SaveMetaWrite(ps) ==
    \E p \in ps :
        /\ procs[p].pc = "meta_write"
        /\ Step(p, [procs[p] EXCEPT !.pc = "man_read"],
                [Store EXCEPT !.meta[procs[p].run_id] =
                    FullMetadata(StepMetadata, procs[p].run_id, procs[p].fmt)],
                saved, {})

\* _update_manifest: manifest = self._load_manifest()
SaveManifestRead(ps) ==
    \E p \in ps :
        /\ procs[p].pc = "man_read"
        /\ Step(p, [procs[p] EXCEPT !.pc = "man_write", !.man = manifest], Store, saved, {})

\* _update_manifest: the entry is set in the manifest read and the whole
\* manifest is written; save returns
SaveManifestWrite(ps) ==
    \E p \in ps :
        /\ procs[p].pc = "man_write"
        /\ Step(p, [IdleProc EXCEPT !.op = "save", !.run_id = procs[p].run_id,
                                    !.fmt = procs[p].fmt, !.res = "ok"],
                [Store EXCEPT !.manifest =
                    UpdateManifest(procs[p].man, procs[p].run_id, StepMetadata)],
                saved \cup {procs[p].run_id}, {})

\* load(run_id) is called and reads metadata.json
LoadReadMeta(ps, ids) ==
    \E p \in ps, run_id \in ids :
        /\ procs[p].pc = "idle"
        /\ LET info == Info(Store, run_id)
           IN Step(p, IF info.res = "ok"
                      THEN [IdleProc EXCEPT !.pc = "read_arrays", !.op = "load",
                                            !.run_id = run_id, !.md = info.metadata]
                      ELSE [IdleProc EXCEPT !.op = "load", !.run_id = run_id,
                                            !.res = info.res],
                   Store, saved, {})

\* load reads the arrays at the location the metadata names, and returns;
\* it saw a partly written artifact if it did not get the arrays of a save
LoadReadArrays(ps) ==
    \E p \in ps :
        /\ procs[p].pc = "read_arrays"
        /\ LET md == procs[p].md
               r == LoadArrays(md.arrays_format, arts[procs[p].run_id][md.arrays_path],
                               installed)
           IN Step(p, [IdleProc EXCEPT !.op = "load", !.run_id = procs[p].run_id,
                                       !.md = md, !.res = r.res, !.arrays = r.arrays],
                   Store, saved,
                   IF r.res = "ok" /\ r.arrays = StepArrays THEN {} ELSE {"partial"})

\* run_exists(run_id), as cmd_run calls it: it saw an early hit if the run
\* directory exists with no artifact and no metadata in it
RunExistsStep(ps, ids) ==
    \E p \in ps, run_id \in ids :
        /\ procs[p].pc = "idle"
        /\ Step(p, [IdleProc EXCEPT !.op = "run_exists", !.run_id = run_id,
                                    !.res = IF RunExists(Store, run_id) THEN "True"
                                            ELSE "False"],
                Store, saved,
                IF /\ RunExists(Store, run_id)
                   /\ \A name \in ArtifactNames : arts[run_id][name].st = "absent"
                   /\ meta[run_id].st = "absent"
                THEN {"early_hit"} ELSE {})

StepInit ==
    /\ installed = OptionalLibs
    /\ InitStore
    /\ sweep = NoSweep

\* One process saves run 1 again and again, in either of two formats, while
\* another one loads it.
Writer == {1}
Reader == {2}
StepFormats == {"npz", "zarr"}

StepNext ==
    \/ BeginSave(Writer, {1}, StepFormats)
    \/ SaveMkdir(Writer)
    \/ SaveRmtree(Writer)
    \/ SaveOpen(Writer)
    \/ SaveWrite(Writer)
    \/ SaveMetaOpen(Writer)
    \/ SaveMetaWrite(Writer)
    \/ SaveManifestRead(Writer)
    \/ SaveManifestWrite(Writer)
    \/ LoadReadMeta(Reader, {1})
    \/ LoadReadArrays(Reader)

StepSpec == StepInit /\ [][StepNext]_vars

\* Every process saves, loads and checks any run, in the zarr format.
ConcFormats == {"zarr"}

ConcNext ==
    \/ BeginSave(Procs, RunIds, ConcFormats)
    \/ SaveMkdir(Procs)
    \/ SaveRmtree(Procs)
    \/ SaveOpen(Procs)
    \/ SaveWrite(Procs)
    \/ SaveMetaOpen(Procs)
    \/ SaveMetaWrite(Procs)
    \/ SaveManifestRead(Procs)
    \/ SaveManifestWrite(Procs)
    \/ LoadReadMeta(Procs, RunIds)
    \/ LoadReadArrays(Procs)
    \/ RunExistsStep(Procs, RunIds)

ConcSpec == StepInit /\ [][ConcNext]_vars

\* ================================================================== claims

\* The manifest entries of a run id (none or one).
EntriesOf(man, run_id) == {e \in LoadManifest(man) : e.run_id = run_id}

\* C1: run_exists(id) is true once save(id, ...) has returned, and false for
\* every id for which no save has completed, also when a save of it was
\* attempted and raised.
C1_ExistsIffSaved ==
    \A id \in RunIds : RunExists(Store, id) <=> id \in saved

\* C4: a save of run id B leaves the run directory (artifacts, metadata.json)
\* and the manifest entry of every other run id A unchanged, and after it A,
\* if saved, and B, if the save returned, load as themselves.
C4_SaveLeavesOtherRuns ==
    [][last'.op = "save" =>
        /\ \A a \in RunIds \ {last'.run_id} :
              /\ (a \in dirs') <=> (a \in dirs)
              /\ arts'[a] = arts[a]
              /\ meta'[a] = meta[a]
              /\ EntriesOf(manifest', a) = EntriesOf(manifest, a)
              /\ Load(Store', installed, a) = Load(Store, installed, a)
        /\ \A a \in saved' :
              /\ Load(Store', installed, a).res = "ok"
              /\ Load(Store', installed, a).metadata.run_id = a
              /\ Cardinality(EntriesOf(manifest', a)) = 1
        /\ last'.res = "ok" =>
              Load(Store', installed, last'.run_id).metadata.timestamp
                  = meta'[last'.run_id].timestamp]_vars

\* Two runs saved one after the other in different formats, both loadable.
C4_Witness ==
    /\ last.op = "save" /\ last.res = "ok" /\ last.run_id = 2
    /\ 1 \in saved
    /\ meta[1].arrays_format # meta[2].arrays_format
    /\ meta[1].timestamp # meta[2].timestamp
    /\ Load(Store, installed, 1).metadata.run_id = 1
    /\ Load(Store, installed, 2).metadata.run_id = 2

\* C7: a save with an arrays_format that is not registered raises, writes no
\* artifact in any encoding, no metadata.json and no manifest entry.
C7_UnregisteredFormatRaises ==
    [][(last'.op = "save" /\ last'.bad) =>
          /\ last'.res = "ValueError"
          /\ arts' = arts
          /\ meta' = meta
          /\ manifest' = manifest
          /\ saved' = saved]_vars

\* A save in an unregistered format has raised for a run never saved.
C7_Witness ==
    /\ last.op = "save" /\ last.bad /\ last.res = "ValueError"
    /\ last.run_id \notin saved
    /\ meta[last.run_id].st = "absent"
    /\ EntriesOf(manifest, last.run_id) = {}

\* C3: in cmd_run without --force and in cmd_sweep the simulation function is
\* not called for a run id whose subdirectory exists, and that run's artifacts,
\* metadata.json and manifest entry stay as they are; no run id is computed
\* twice by one command.
C3_ExistingRunNotRecomputed ==
    [][((last'.op = "run" /\ ~last'.force) \/ last'.op = "sweep") =>
          /\ \A id \in dirs :
                /\ \A p \in last'.ran : p[2] # id
                /\ arts'[id] = arts[id]
                /\ meta'[id] = meta[id]
                /\ EntriesOf(manifest', id) = EntriesOf(manifest, id)
          /\ \A p, q \in last'.ran : p[2] = q[2] => p = q]_vars

\* A cache hit of cmd_run on a saved run.
C3_Witness ==
    /\ last.op = "run" /\ ~last.force /\ last.res = "hit" /\ last.ran = {}
    /\ last.run_id \in saved
    /\ meta[last.run_id].st = "ok"

\* Every run directory holds readable metadata and the manifest holds its
\* entry: the store is as successful saves alone leave it.
SavesOnly ==
    \A id \in dirs :
        /\ meta[id].st = "ok"
        /\ EntriesOf(manifest, id) = {[run_id |-> id, timestamp |-> meta[id].timestamp,
                                       tags |-> meta[id].tags]}

\* The sort key of load_latest: a missing timestamp counts as "".
KeyTs(ts) == IF ts = NoneTs THEN EmptyStr ELSE ts

\* C5: on a store that saves have built, load_latest(tag) returns None when no
\* run carries the tag, and otherwise loads a run that carries it and whose
\* timestamp is lexicographically greatest among the runs that do, the last
\* listed of them on a tie; it does not raise.
C5_LoadLatestPicksGreatest ==
    (last.op = "load_latest" /\ SavesOnly) =>
        LET tagged == {id \in dirs : last.tag \in Range(meta[id].tags)}
            got == last.out.metadata
        IN IF tagged = {} THEN last.res = "None"
           ELSE /\ last.res = "ok"
                /\ got.run_id \in tagged
                /\ \A id \in tagged :
                      /\ ~LexLess(KeyTs(got.timestamp), KeyTs(meta[id].timestamp))
                      /\ KeyTs(meta[id].timestamp) = KeyTs(got.timestamp)
                            => id <= got.run_id

\* C6: with manifest.json absent, list_runs does not fail and returns one
\* entry per run subdirectory; the entry of a run whose metadata.json is
\* missing or unreadable has a null timestamp and no tags, the entry of any
\* other run the timestamp and tags of its metadata.json.
C6_FallbackListsEveryRunDir ==
    manifest.st = "absent" =>
        LET listing == ListRuns(Store)
        IN /\ listing.res = "ok"
           /\ Len(listing.runs) = Cardinality(dirs)
           /\ \A id \in dirs :
                 \E i \in 1..Len(listing.runs) :
                    /\ listing.runs[i].run_id = id
                    /\ listing.runs[i].timestamp =
                          (IF meta[id].st = "ok" THEN meta[id].timestamp ELSE NoneTs)
                    /\ listing.runs[i].tags =
                          (IF meta[id].st = "ok" THEN meta[id].tags ELSE << >>)

\* list_runs has run without a manifest over a readable run, a run with
\* truncated metadata.json or none.
C6_Witness ==
    /\ last.op = "list_runs" /\ last.res = "ok"
    /\ manifest.st = "absent"
    /\ \E a, b \in dirs : meta[a].st = "ok" /\ meta[b].st # "ok"

\* C2: a second save with the run id, arrays, metadata and arrays_format of a
\* save that has just returned returns too and leaves the run directories,
\* artifacts, metadata.json files and manifest, and with them what list_runs
\* and load return, as the first left them.
C2_SaveIdempotent ==
    (last.op = "save" /\ last.res = "ok") =>
        LET again == Save(Store, installed, last.run_id, last.args.arrays,
                          last.args.metadata, last.args.fmt, "none", {})
        IN /\ again.res = "ok"
           /\ again.store = Store
           /\ ListRuns(again.store) = ListRuns(Store)
           /\ Load(again.store, installed, last.run_id)
                 = Load(Store, installed, last.run_id)

\* A save into a directory store over an earlier save in another format.
C2_Witness ==
    /\ last.op = "save" /\ last.res = "ok" /\ last.args.fmt = "zarr"
    /\ last.args.arrays = TwoArrays
    /\ arts[last.run_id]["arrays.npz"].st = "ok"

\* C8: load of a run whose metadata.json is missing (also a run never saved),
\* or whose metadata.json names an artifact location that is missing, fails
\* with a not-found error and returns neither arrays nor metadata; load
\* changes nothing in the store.
C8_LoadMissingIsNotFound ==
    [][last'.op = "load" =>
          /\ UNCHANGED <<dirs, arts, meta, manifest>>
          /\ LET id == last'.run_id
                 md == meta[id]
             IN (md.st = "absent" \/
                 (md.st = "ok" /\ arts[id][md.arrays_path].st = "absent"))
                => /\ last'.res = "NotFound"
                   /\ last'.out.arrays = {}
                   /\ last'.out.metadata = AbsentMeta]_vars

\* load has failed on a run whose metadata.json names a removed artifact.
C8_Witness ==
    /\ last.op = "load" /\ last.res = "NotFound"
    /\ meta[last.run_id].st = "ok"
    /\ arts[last.run_id][meta[last.run_id].arrays_path].st = "absent"

\* C9: after a save that returned, whatever the registered format, load
\* returns the saved arrays, names and values (no array, an empty array and a
\* zero-dimensional array too), and the supplied metadata, equal as JSON
\* values (a tuple is the list of its items), with run_id, arrays_format and
\* arrays_path (the name of the written artifact) set.
C9_RoundTrip ==
    (last.op = "save" /\ last.res = "ok") =>
        LET got == Load(Store, installed, last.run_id)
        IN /\ got.res = "ok"
           /\ got.arrays = last.args.arrays
           /\ got.metadata =
                 [st |-> "ok", timestamp |-> last.args.metadata.timestamp,
                  tags |-> last.args.metadata.tags,
                  extra |-> JsonRoundTrip(last.args.metadata.extra),
                  run_id |-> last.run_id, arrays_format |-> last.args.fmt,
                  arrays_path |-> ArraysName(last.args.fmt)]

\* The seeds the claim names: grid['seeds'], else [grid['seed']], else [0].
ClaimedSeeds(grid) ==
    IF grid.seeds[1] = "seeds" THEN grid.seeds[2]
    ELSE IF grid.seeds[1] = "seed" THEN <<grid.seeds[2]>>
    ELSE <<0>>

\* The number of combinations of the axes from the i-th on.
RECURSIVE CombosFrom(_, _)
CombosFrom(axes, i) ==
    IF i > Len(axes) THEN 1 ELSE Len(axes[i][2]) * CombosFrom(axes, i + 1)

\* The c-th combination (from 0) in nested-loop order, the last axis fastest.
ComboAt(axes, c) ==
    {<<axes[i][1],
       axes[i][2][((c \div CombosFrom(axes, i + 1)) % Len(axes[i][2])) + 1]>> :
        i \in 1..Len(axes)}

\* C10: iter_sweep yields, pair by pair, the combinations of the axes in
\* nested-loop order (axes as declared, the last fastest), each with every
\* seed in turn before the next combination, the seeds being grid['seeds'],
\* else [grid['seed']], else [0]; when it stops it has yielded
\* (product of the axis lengths) * (number of seeds) pairs, a grid without
\* params counting as one empty combination.
C10_SweepIsFullProduct ==
    LET axes == sweep.grid.params
        seeds == ClaimedSeeds(sweep.grid)
        out == sweep.yielded
    IN /\ \A k \in 1..Len(out) :
             out[k] = <<ComboAt(axes, (k - 1) \div Len(seeds)),
                        seeds[((k - 1) % Len(seeds)) + 1]>>
       /\ Len(out) <= CombosFrom(axes, 1) * Len(seeds)
       /\ sweep.done => Len(out) = CombosFrom(axes, 1) * Len(seeds)

\* The generator has stopped after the eight pairs of two axes of two values
\* and two seeds.
C10_Witness ==
    /\ sweep.done
    /\ sweep.grid.params = << <<"a", <<1, 2>> >>, <<"b", <<1, 2>> >> >>
    /\ sweep.grid.seeds = <<"seeds", <<0, 1>> >>
    /\ Len(sweep.yielded) = 8
    /\ sweep.yielded[3] = <<{<<"a", 1>>, <<"b", 2>>}, 0>>

\* What a value means, whatever container or order expresses it: a mapping is
\* its set of items, a list or tuple its sequence, a set its elements.
RECURSIVE Meaning(_)
Meaning(obj) ==
    CASE obj[1] = "dict" ->
            <<"map", {<<obj[2][i][1], Meaning(obj[2][i][2])>> : i \in 1..Len(obj[2])}>>
      [] obj[1] \in {"list", "tuple"} ->
            <<"seq", [i \in 1..Len(obj[2]) |-> Meaning(obj[2][i])]>>
      [] obj[1] = "set" ->
            <<"set", {Meaning(obj[2][i]) : i \in 1..Len(obj[2])}>>
      [] OTHER -> obj

\* C11: compute_run_id raises for none of the values (null, integers, text,
\* lists, tuples, sets, text-keyed mappings), and two calls whose params and
\* seed mean the same, whatever the key order, list or tuple, or iteration
\* order of a set, return the same id.
C11_SameIdForEqualSpecs ==
    LET calls == {c \in Range(sweep.yielded) : c.res # "none"}
    IN /\ \A c \in calls : c.res = "ok"
       /\ \A c \in calls : \A d \in calls :
             (Meaning(c.params) = Meaning(d.params) /\ c.seed = d.seed)
                => c.id = d.id

\* C12: the id compute_run_id returns is RunIdLen (12) lowercase hexadecimal
\* characters, the leading ones of the digest of the canonical encoding.
C12_IdIsTwelveHexChars ==
    \A c \in Range(sweep.yielded) :
        c.res = "ok" =>
            /\ Len(c.id) = RunIdLen
            /\ \A i \in 1..Len(c.id) : c.id[i] \in Range(HexDigits)
            /\ c.id = SubSeq(Sha256Hex(Dumps(Normalize(
                                BuildSpec(c.params, c.seed, PyNone, EmptyEnv)))),
                             1, RunIdLen)

\* A list of tags in strictly ascending order: sorted, none twice.
SortedNoRepeats(tags) == \A i \in 1..Len(tags) : \A j \in 1..Len(tags) :
                            i < j => tags[i] < tags[j]

\* C13: in every store state the tags in a run's metadata.json and in its
\* manifest entry are sorted and free of repeats, whether they came from
\* --tag options, a grid's tags or the extra metadata of the simulation.
C13_TagsSortedNoRepeats ==
    /\ \A id \in RunIds : meta[id].st = "ok" => SortedNoRepeats(meta[id].tags)
    /\ \A e \in LoadManifest(manifest) : SortedNoRepeats(e.tags)

\* C14: run_exists, compute_run_id, load, info, list_runs, load_latest and
\* export change neither manifest.json nor any run subdirectory, and export
\* of a run id that was never saved fails with a not-found error and leaves
\* the destination as it was.
C14_OnlySaveChangesStore ==
    [][/\ last'.op \in {"run_exists", "compute_run_id", "load", "info",
                        "list_runs", "load_latest", "export"}
          => UNCHANGED <<dirs, arts, meta, manifest>>
       /\ (last'.op = "export" /\ last'.run_id \notin saved)
          => (last'.res = "NotFound" /\ UNCHANGED outside)]_vars

\* The artifact locations present in a run directory.
Present(rundir) == {name \in ArtifactNames : rundir[name].st # "absent"}

\* C16: after any sequence of saves, re-saves of a run id in another format
\* included, a run directory holds at most one artifact location, and when
\* its metadata.json is readable that location is the one arrays_path names.
C16_OneArtifactPerRun ==
    \A id \in dirs :
        /\ Cardinality(Present(arts[id])) <= 1
        /\ meta[id].st = "ok" => Present(arts[id]) = {meta[id].arrays_path}

\* C17: when the write of the arrays inside save fails, at whatever step, the
\* artifact location of the format is absent or exactly as it was before the
\* call, and if it was present before it is present after.
C17_ArtifactWriteAtomic ==
    [][(last'.op = "save" /\ last'.res = "OSError") =>
          \A name \in ArtifactNames :
             LET before == arts[last'.run_id][name]
                 after == arts'[last'.run_id][name]
             IN /\ after = AbsentFile \/ after = before
                /\ before # AbsentFile => after # AbsentFile]_vars

\* C18: with entries in the manifest, list_runs returns without raising,
\* whether or not the saved metadata had timestamps, and returns exactly the
\* entries of the manifest, those without a timestamp first and the others
\* in ascending order of timestamp.
C18_ListRunsSortedNullFirst ==
    (last.op = "list_runs" /\ LoadManifest(manifest) # {}) =>
        /\ last.res = "ok"
        /\ LET runs == ListRuns(Store).runs
           IN /\ Range(runs) = LoadManifest(manifest)
              /\ Len(runs) = Cardinality(LoadManifest(manifest))
              /\ \A i \in 1..Len(runs) : \A j \in 1..Len(runs) :
                    i < j => ~LexLess(KeyTs(runs[j].timestamp), KeyTs(runs[i].timestamp))

\* C15: while a save runs, a first save or one over a run already present,
\* a metadata.json that is present names an artifact location that exists and
\* holds all the arrays; and a load that has read the metadata returns the
\* arrays of a save.
C15_MetadataNeverAheadOfArtifact ==
    /\ \A id \in dirs :
          meta[id].st = "ok" =>
             arts[id][meta[id].arrays_path] =
                FileOf(Encode(meta[id].arrays_format, StepArrays))
    /\ \A p \in Procs :
          (procs[p].op = "load" /\ procs[p].pc = "idle" /\ procs[p].md.st = "ok")
             => (procs[p].res = "ok" /\ procs[p].arrays = StepArrays)

\* A save has returned for an id that the manifest has no entry for.
LostUpdate == \E id \in saved : EntriesOf(manifest, id) = {}

\* C19: the manifest loses the entry of a save that returned only when two
\* saves ran at the same time; with one writer at a time it never does.
C19_LostUpdateOnlyWhenConcurrent == LostUpdate => "ww" \in hist.raced

\* Two saves of different run ids have both returned and the manifest holds
\* the entry of one of them only.
C19_Witness ==
    /\ \A p \in Procs : procs[p].pc = "idle" /\ procs[p].op = "save" /\ procs[p].res = "ok"
    /\ procs[1].run_id # procs[2].run_id
    /\ saved = {procs[1].run_id, procs[2].run_id}
    /\ Cardinality(LoadManifest(manifest)) = 1

\* C20: a load gets an artifact that is not fully written, or run_exists
\* reports a run whose artifacts and metadata are not written, only while
\* another process is inside a save; one process at a time sees neither.
C20_PartialSeenOnlyWhenConcurrent == hist.seen # {} => "rw" \in hist.raced

\* Both have happened: a load has returned a partly written artifact and a
\* run_exists has reported a run directory with nothing in it.
C20_Witness == hist.seen = {"partial", "early_hit"}

\* C21: whenever run_exists(id) is true, load(id) returns that run's arrays
\* and metadata, also after a save of the id that raised (unregistered
\* format, missing codec library, failed write): between operations no run
\* is left between Absent and Present, and a cache hit of cmd_run without
\* --force is a run that loads.
C21_ExistingRunLoads ==
    \A id \in RunIds :
        RunExists(Store, id) =>
            /\ Load(Store, installed, id).res = "ok"
            /\ Load(Store, installed, id).metadata.run_id = id

\* C22: list_runs returns one entry, and only one, for every run
\* subdirectory of the store and none for anything else, also when the
\* manifest has entries and misses a run that is present (a save that raised
\* before the manifest update, a manifest lost and written again), and the
\* entry of a run whose metadata.json is readable has its timestamp and tags.
C22_ListRunsCoversEveryRunDir ==
    last.op = "list_runs" =>
        LET listing == ListRuns(Store)
        IN /\ listing.res = "ok"
           /\ Len(listing.runs) = Cardinality(dirs)
           /\ \A id \in dirs :
                 \E i \in 1..Len(listing.runs) :
                    /\ listing.runs[i].run_id = id
                    /\ meta[id].st = "ok" =>
                          /\ listing.runs[i].timestamp = meta[id].timestamp
                          /\ listing.runs[i].tags = meta[id].tags

====
